---- MODULE Spec2Model ----
(***************************************************************************)
(* Model of src/app.py: the Streamlit "AI Web Scraper".                    *)
(*                                                                         *)
(* Python strings are sequences of one-character strings, so that          *)
(* startswith, `in`, lower, strip and replace are computed the way Python  *)
(* computes them.  An optional value (None or a value) is a sequence of    *)
(* length 0 or 1.                                                          *)
(***************************************************************************)
EXTENDS Integers, Sequences, FiniteSets, TLC

VARIABLES
    pc,           \* where the request is: idle, call, fetch, parse, extract, returned, done
    caller,       \* "handler" (the Start Scraping button) or "direct" (a call of scrape_website)
    url,          \* argument url
    option,       \* argument option
    custom_tag,   \* argument custom_tag, optional
    description,  \* argument description, optional
    log,          \* the stages entered so far, each with its outcome
    response,     \* what requests.get returned
    soup,         \* the parsed document
    results,      \* what scrape_website returned
    exc,          \* the exception first raised inside scrape_website, optional
    ui            \* the messages shown to the user, in order

vars == <<pc, caller, url, option, custom_tag, description,
          log, response, soup, results, exc, ui>>

----------------------------------------------------------------------------
(* Bounds *)

\* longest document: number of top-level elements of the fetched page
MaxNodes == 2

\* longest description: number of words typed into the text area
MaxWords == 2

----------------------------------------------------------------------------
(* Python values *)

None == <<>>

Some(v) == <<v>>

\* Python truthiness of an optional string: None and "" are falsy
Falsy(o) == o = None \/ o[1] = <<>>

RECURSIVE Concat(_)
\* the concatenation of a sequence of strings
Concat(ss) == IF ss = <<>> THEN <<>> ELSE Head(ss) \o Concat(Tail(ss))

\* str.startswith(p)
StartsWith(s, p) == Len(p) <= Len(s) /\ SubSeq(s, 1, Len(p)) = p

\* p in s
Contains(s, p) == \E i \in 0..(Len(s) - Len(p)) : SubSeq(s, i + 1, i + Len(p)) = p

LowerChar(c) ==
    CASE c = "P" -> "p"
      [] c = "E" -> "e"
      [] c = "H" -> "h"
      [] OTHER -> c

\* str.lower()
Lower(s) == [i \in 1..Len(s) |-> LowerChar(s[i])]

IsSpace(c) == c \in {" ", "\n", "\t"}

RECURSIVE LStrip(_)
LStrip(s) == IF s # <<>> /\ IsSpace(Head(s)) THEN LStrip(Tail(s)) ELSE s

RECURSIVE RStrip(_)
RStrip(s) ==
    IF s # <<>> /\ IsSpace(s[Len(s)]) THEN RStrip(SubSeq(s, 1, Len(s) - 1)) ELSE s

\* str.strip()
Strip(s) == RStrip(LStrip(s))

RECURSIVE Replace(_, _)
\* str.replace(p, ''): every non-overlapping occurrence, left to right
Replace(s, p) ==
    IF Len(s) < Len(p) THEN s
    ELSE IF SubSeq(s, 1, Len(p)) = p
         THEN Replace(SubSeq(s, Len(p) + 1, Len(s)), p)
         ELSE <<Head(s)>> \o Replace(Tail(s), p)

----------------------------------------------------------------------------
(* String literals of the source *)

http == <<"h","t","t","p",":","/","/">>

https == <<"h","t","t","p","s",":","/","/">>

mailto == <<"m","a","i","l","t","o",":">>

price == <<"p","r","i","c","e">>

email == <<"e","m","a","i","l">>

dollar == <<"$">>

euro == <<"€">>

pound == <<"£">>

----------------------------------------------------------------------------
(* The parsed document: a BeautifulSoup tree.  A node is a string or an    *)
(* element with a tag, optional href / src / class attributes and children *)

Txt(s) == [kind |-> "str", tag |-> <<>>, href |-> None, src |-> None,
           cls |-> None, s |-> s, kids |-> <<>>]

El(tag, href, src, cls, kids) ==
    [kind |-> "el", tag |-> tag, href |-> href, src |-> src,
     cls |-> cls, s |-> <<>>, kids |-> kids]

RECURSIVE TagString(_)
\* Tag.string: the single string child, looked up through single element
\* children; None when the element has no child or more than one
TagString(e) ==
    IF Len(e.kids) # 1 THEN None
    ELSE IF e.kids[1].kind = "str" THEN Some(e.kids[1].s)
    ELSE TagString(e.kids[1])

RECURSIVE TagText(_)
\* Tag.text: all strings below the element, concatenated
TagText(e) ==
    IF e.kind = "str" THEN e.s
    ELSE Concat([i \in 1..Len(e.kids) |-> TagText(e.kids[i])])

RECURSIVE Descendants(_)
\* the elements of a node list in document order (pre-order), as find_all
\* and select visit them
Descendants(nodes) ==
    IF nodes = <<>> THEN <<>>
    ELSE LET n == Head(nodes)
         IN  (IF n.kind = "el" THEN <<n>> \o Descendants(n.kids) ELSE <<>>)
             \o Descendants(Tail(nodes))

RECURSIVE OuterHtml(_)
\* str(element): the serialized outer markup
OuterHtml(e) ==
    IF e.kind = "str" THEN e.s
    ELSE LET attr(name, o) ==
                 IF o = None THEN <<>> ELSE <<" ">> \o name \o <<"=", "\"">> \o o[1] \o <<"\"">>
         IN  <<"<">> \o e.tag
             \o attr(<<"c","l","a","s","s">>, e.cls)
             \o attr(<<"h","r","e","f">>, e.href)
             \o attr(<<"s","r","c">>, e.src)
             \o <<">">>
             \o Concat([i \in 1..Len(e.kids) |-> OuterHtml(e.kids[i])])
             \o <<"<", "/">> \o e.tag \o <<">">>

span == <<"s","p","a","n">>

div == <<"d","i","v">>

para == <<"p">>

anchor == <<"a">>

bold == <<"b">>

img == <<"i","m","g">>

HasCurrency(text) ==
    Contains(text, dollar) \/ Contains(text, euro) \/ Contains(text, pound)

\* soup.find_all(['span','div','p'], text=lambda text: text and ('$' in text ...))
PricePatterns(doc) ==
    SelectSeq(Descendants(doc),
              LAMBDA e : /\ e.tag \in {span, div, para}
                         /\ TagString(e) # None
                         /\ TagString(e)[1] # <<>>
                         /\ HasCurrency(TagString(e)[1]))

\* soup.find_all(['a'], href=lambda href: href and 'mailto:' in href)
EmailPatterns(doc) ==
    SelectSeq(Descendants(doc),
              LAMBDA e : /\ e.tag = anchor
                         /\ e.href # None
                         /\ e.href[1] # <<>>
                         /\ Contains(e.href[1], mailto))

\* the selector is malformed: an attribute bracket that is never closed
SelectorSyntaxError(sel) == Contains(sel, <<"[">>) /\ ~Contains(sel, <<"]">>)

RECURSIVE UpTo(_, _)
\* the part of s before the first c
UpTo(s, c) == IF s = <<>> \/ Head(s) = c THEN <<>> ELSE <<Head(s)>> \o UpTo(Tail(s), c)

\* soup.select(custom_tag) for the selectors `tag`, `.class` and `tag.class`
Select(doc, sel) ==
    LET t == UpTo(sel, ".")
        hasClass == Len(t) < Len(sel)
        c == SubSeq(sel, Len(t) + 2, Len(sel))
    IN  SelectSeq(Descendants(doc),
                  LAMBDA e : /\ (t = <<>> \/ e.tag = t)
                             /\ (hasClass => e.cls = Some(c)))

----------------------------------------------------------------------------
(* Inputs: what the user can type and what the web server can answer *)

host == <<"x",".","c","o","m">>

ftp == <<"f","t","p",":","/","/">>

URLs == {<<>>, host, ftp \o host, http \o host, https \o host}

Options == {"Text Content", "Links", "Images", "Custom Elements", "Smart Extract"}

\* the selectors typed into the sidebar: "", span, span.c, div.missing, div[
Selectors ==
    {<<>>, span, span \o <<".","c">>,
     div \o <<".","m","i","s","s","i","n","g">>, div \o <<"[">>}

DescWords == {<<"P","r","i","c","e">>, email, dollar, euro}

\* the descriptions typed into the text area: up to MaxWords words
Descriptions ==
    {Concat(ws) : ws \in UNION {[1..n -> DescWords] : n \in 0..MaxWords}}

mailA == mailto \o <<"a","@","b">>

Elements ==
    {El(span, None, None, None, <<Txt(<<" ","$","1"," ">>)>>),
     El(span, None, None, Some(<<"c">>), <<Txt(<<"h","i">>)>>),
     El(para, None, None, None,
        <<Txt(<<"E","U","R"," ">>), El(bold, None, None, None, <<Txt(<<"€","5">>)>>)>>),
     El(div, None, None, None, <<El(span, None, None, None, <<Txt(<<"£","3">>)>>)>>),
     El(anchor, Some(mailA), None, None,
        <<El(img, None, Some(<<"i",".","p","n","g">>), None, <<>>)>>),
     El(anchor, Some(mailA \o <<"?","c","c","=">> \o mailto \o <<"c">>), None, None,
        <<Txt(<<"c","c">>)>>)}

\* the pages a server can send: up to MaxNodes top-level elements
Docs == UNION {[1..n -> Elements] : n \in 0..MaxNodes}

Statuses == {200, 304, 403, 404, 500}

\* requests.get raising instead of returning a response
FetchExceptions == {"Timeout", "SSLError", "ConnectionError", "TooManyRedirects"}

\* an exception escaping the node scan of one Smart Extract rule
Faults == {"none", "price", "email"}

----------------------------------------------------------------------------
(* Results and messages *)

Unset == [kind |-> "unset", rows |-> <<>>]

ReturnNone == [kind |-> "none", rows |-> <<>>]

DataFrame(rows) == [kind |-> "frame", rows |-> rows]

Msg(level, text, cause) == [level |-> level, text |-> text, cause |-> cause]

\* an exception object: the statement that raised it and str(e)
Raised(where, msg) == Some([where |-> where, msg |-> msg])

NoResponse == [status |-> 0, html |-> <<>>, parses |-> TRUE]

StageGet == "GET"

StageParse == "PARSE"

StageExtract == "EXTRACT"

Init ==
    /\ pc = "idle"
    /\ caller = "none"
    /\ url = <<>>
    /\ option = "Text Content"
    /\ custom_tag = None
    /\ description = None
    /\ log = <<>>
    /\ response = NoResponse
    /\ soup = <<>>
    /\ results = Unset
    /\ exc = None
    /\ ui = <<>>

----------------------------------------------------------------------------
(* scrape_website, stage by stage *)

\* validators.url(url): a scheme the library knows (http, https and ftp among
\* them) followed by a host name with a dot and no blank
is_valid_url(u) ==
    \E scheme \in {http, https, ftp} :
        /\ StartsWith(u, scheme)
        /\ LET h == SubSeq(u, Len(scheme) + 1, Len(u))
           IN  h # <<>> /\ Contains(h, <<".">>) /\ ~Contains(h, <<" ">>)

\* url.startswith(('http://', 'https://'))
HasHttpScheme(u) == StartsWith(u, http) \/ StartsWith(u, https)

\* a raise caught by the outer handler of scrape_website: st.error, return None
Fail(where, text, cause) ==
    /\ ui' = Append(ui, Msg("error", text, cause))
    /\ exc' = Raised(where, IF cause = "" THEN text ELSE cause)
    /\ results' = ReturnNone
    /\ pc' = "returned"

\* the message of the exception that leaves the fetch block
FetchExceptionMessage(x) ==
    CASE x = "Timeout" ->
           Msg("error", "Request timed out. The website took too long to respond.", "")
      [] x = "SSLError" ->
           Msg("error", "SSL Certificate verification failed. The website might not be secure.", "")
      [] x = "ConnectionError" ->
           Msg("error", "Failed to connect to the website. Please check your internet connection.", "")
      [] OTHER -> Msg("error", "", x)

RaisesForClientErrorOnly(status) == 400 <= status /\ status < 500

\* Response.raise_for_status(): HTTPError for 4xx and 5xx
RaisesForStatus(status) == 400 <= status /\ status < 600

\* str(http_err)
StatusText(status) ==
    [code |-> status, reason |-> IF status < 500 THEN "Client Error" ELSE "Server Error"]

HttpErrorMessageNoNotFound(status) ==
    IF status = 403
    THEN Msg("error", "Access forbidden. The website might be blocking web scrapers.", "")
    ELSE Msg("error", "HTTP error occurred: ", StatusText(status))

\* the message of the exception raised for an HTTPError (lines 86-92)
HttpErrorMessage(status) ==
    IF status = 403
    THEN Msg("error", "Access forbidden. The website might be blocking web scrapers.", "")
    ELSE IF status = 404
    THEN Msg("error", "Page not found. Please check if the URL is correct.", "")
    ELSE Msg("error", "HTTP error occurred: ", StatusText(status))

PriceFires(desc) ==
    LET desc_lower == Lower(desc)
    IN  Contains(desc_lower, price) \/ Contains(desc_lower, dollar)

EmailFires(desc) == Contains(Lower(desc), email)

PriceRows(doc) ==
    LET price_patterns == PricePatterns(doc)
    IN  [i \in 1..Len(price_patterns) |->
            [Type |-> "Price", Content |-> Strip(TagText(price_patterns[i]))]]

EmailRows(doc) ==
    LET email_patterns == EmailPatterns(doc)
    IN  [i \in 1..Len(email_patterns) |->
            [Type |-> "Email", Content |-> Replace(email_patterns[i].href[1], mailto)]]

SmartRowsEmailFirst(doc, desc) ==
    (IF EmailFires(desc) THEN EmailRows(doc) ELSE <<>>)
    \o (IF PriceFires(desc) THEN PriceRows(doc) ELSE <<>>)

\* extracted_data after both rules
SmartRows(doc, desc) ==
    (IF PriceFires(desc) THEN PriceRows(doc) ELSE <<>>)
    \o (IF EmailFires(desc) THEN EmailRows(doc) ELSE <<>>)

\* the rule whose scan raises, if any: the first firing rule that is faulty
SmartRaises(desc, fault) ==
    \/ fault = "price" /\ PriceFires(desc)
    \/ fault = "email" /\ EmailFires(desc)

\* the st.warning calls of the Smart Extract branch, in order
SmartWarnings(doc, desc, fault) ==
    LET priceDone == PriceFires(desc) /\ fault # "price"
        emailDone == priceDone \/ ~PriceFires(desc)
    IN  (IF priceDone /\ PricePatterns(doc) = <<>>
         THEN <<Msg("warning", "No price information found on the page", "")>> ELSE <<>>)
        \o (IF emailDone /\ EmailFires(desc) /\ fault # "email" /\ EmailPatterns(doc) = <<>>
            THEN <<Msg("warning", "No email addresses found on the page", "")>> ELSE <<>>)
        \o (IF ~SmartRaises(desc, fault) /\ SmartRows(doc, desc) = <<>>
            THEN <<Msg("warning", "No matching data found for your description", "")>> ELSE <<>>)

SmartExtractKeepsRows(doc, desc, fault) ==
    IF SmartRaises(desc, fault)
    THEN [ui |-> SmartWarnings(doc, desc, fault)
                 \o <<Msg("error", "Error during smart extraction: ",
                          "maximum recursion depth exceeded")>>,
          exc |-> Raised(IF fault = "price" /\ PriceFires(desc) THEN "price" ELSE "email",
                         "maximum recursion depth exceeded"),
          results |-> IF fault = "email" /\ PriceFires(desc)
                      THEN DataFrame(PriceRows(doc)) ELSE ReturnNone]
    ELSE [ui |-> SmartWarnings(doc, desc, fault),
          exc |-> None,
          results |-> DataFrame(SmartRows(doc, desc))]

\* what the Smart Extract branch does to (ui, exc, results)
SmartExtract(doc, desc, fault) ==
    IF SmartRaises(desc, fault)
    THEN [ui |-> SmartWarnings(doc, desc, fault)
                 \o <<Msg("error", "Error during smart extraction: ",
                          "maximum recursion depth exceeded")>>,
          exc |-> Raised(IF fault = "price" /\ PriceFires(desc) THEN "price" ELSE "email",
                         "maximum recursion depth exceeded"),
          results |-> ReturnNone]
    ELSE [ui |-> SmartWarnings(doc, desc, fault),
          exc |-> None,
          results |-> DataFrame(SmartRows(doc, desc))]

CustomRows(doc, sel) ==
    LET elements == Select(doc, sel)
    IN  [i \in 1..Len(elements) |->
            [Content |-> Strip(TagText(elements[i])), HTML |-> OuterHtml(elements[i])]]

\* what the Custom Elements branch does to (ui, exc, results)
CustomElements(doc, sel) ==
    IF SelectorSyntaxError(sel)
    THEN [ui |-> <<Msg("error", "Invalid CSS selector: ", "Malformed attribute selector")>>,
          exc |-> Raised("select", "Malformed attribute selector"),
          results |-> ReturnNone]
    ELSE [ui |-> IF CustomRows(doc, sel) = <<>>
                 THEN <<Msg("warning", "No elements found matching selector: ", sel)>>
                 ELSE <<>>,
          exc |-> None,
          results |-> DataFrame(CustomRows(doc, sel))]

\* the arguments the handler passes on (lines 189-194)
PassedTag(opt, tag) == IF opt = "Custom Elements" THEN tag ELSE None

PassedDescription(opt, desc) == IF opt = "Smart Extract" THEN desc ELSE None

\* the Start Scraping button: input validation, then the call
ClickStart ==
    /\ pc = "idle"
    /\ \E u \in URLs, opt \in Options, sel \in Selectors, desc \in Descriptions :
        /\ caller' = "handler"
        /\ url' = u
        /\ option' = opt
        /\ custom_tag' = PassedTag(opt, Some(sel))
        /\ description' = PassedDescription(opt, Some(desc))
        /\ IF u = <<>>
           THEN /\ ui' = <<Msg("warning", "Please enter a URL", "")>>
                /\ pc' = "done"
           ELSE IF ~is_valid_url(u)
           THEN /\ ui' = <<Msg("error", "Invalid URL format. Please enter a valid URL", "")>>
                /\ pc' = "done"
           ELSE IF opt = "Custom Elements" /\ sel = <<>>
           THEN /\ ui' = <<Msg("warning", "Please enter a custom element selector", "")>>
                /\ pc' = "done"
           ELSE IF opt = "Smart Extract" /\ desc = <<>>
           THEN /\ ui' = <<Msg("warning", "Please describe what you want to extract", "")>>
                /\ pc' = "done"
           ELSE /\ ui' = <<>>
                /\ pc' = "call"
    /\ UNCHANGED <<log, response, soup, results, exc>>

\* scrape_website called with arbitrary arguments
CallScrape ==
    /\ pc = "idle"
    /\ \E u \in URLs, opt \in Options,
          tag \in {None} \cup {Some(sel) : sel \in Selectors},
          desc \in {None} \cup {Some(d) : d \in Descriptions} :
        \* an argument the option does not read is left at its default
        /\ opt # "Custom Elements" => tag = None
        /\ opt # "Smart Extract" => desc = None
        /\ caller' = "direct"
        /\ url' = u
        /\ option' = opt
        /\ custom_tag' = tag
        /\ description' = desc
    /\ pc' = "call"
    /\ UNCHANGED <<log, response, soup, results, exc, ui>>

\* lines 69-71
CheckScheme ==
    /\ pc = "call"
    /\ IF HasHttpScheme(url)
       THEN pc' = "fetch" /\ UNCHANGED <<results, exc, ui>>
       ELSE Fail("url", "URL must start with http:// or https://", "")
    /\ UNCHANGED <<caller, url, option, custom_tag, description, log, response, soup>>

\* lines 74-92: requests.get raises
FetchRaises ==
    /\ pc = "fetch"
    /\ \E x \in FetchExceptions :
        /\ ui' = Append(ui, FetchExceptionMessage(x))
        /\ exc' = Raised("get", x)
        /\ results' = ReturnNone
        /\ pc' = "returned"
    /\ log' = Append(log, <<StageGet, FALSE>>)
    /\ UNCHANGED <<caller, url, option, custom_tag, description, response, soup>>

\* lines 74-92: requests.get returns a response
FetchResponds ==
    /\ pc = "fetch"
    /\ \E status \in Statuses, doc \in Docs, parses \in BOOLEAN :
        \* only a 200 carries a page; a body the parser rejects is no page
        /\ status # 200 \/ ~parses => doc = <<>>
        /\ RaisesForStatus(status) => parses
        /\ response' = [status |-> status, html |-> doc, parses |-> parses]
        /\ IF RaisesForStatus(status)
           THEN /\ ui' = Append(ui, HttpErrorMessage(status))
                /\ exc' = Raised("raise_for_status", StatusText(status))
                /\ results' = ReturnNone
                /\ pc' = "returned"
                /\ log' = Append(log, <<StageGet, FALSE>>)
           ELSE /\ pc' = "parse"
                /\ log' = Append(log, <<StageGet, TRUE>>)
                /\ UNCHANGED <<results, exc, ui>>
    /\ UNCHANGED <<caller, url, option, custom_tag, description, soup>>

\* lines 95-98: BeautifulSoup(response.content, 'html.parser')
Parse ==
    /\ pc = "parse"
    /\ IF response.parses
       THEN /\ soup' = response.html
            /\ pc' = "extract"
            /\ log' = Append(log, <<StageParse, TRUE>>)
            /\ UNCHANGED <<results, exc, ui>>
       ELSE /\ Fail("parse", "Failed to parse HTML content: ", "parser error")
            /\ log' = Append(log, <<StageParse, FALSE>>)
            /\ UNCHANGED soup
    /\ UNCHANGED <<caller, url, option, custom_tag, description, response>>

\* lines 101-151: the dispatch on option
Extract ==
    /\ pc = "extract"
    /\ IF option = "Smart Extract"
       THEN IF Falsy(description)
            THEN /\ Fail("description", "Description is required for Smart Extract", "")
                 /\ log' = Append(log, <<StageExtract, FALSE>>)
            ELSE \E fault \in Faults :
                   LET out == SmartExtract(soup, description[1], fault)
                   IN  /\ ui' = ui \o out.ui
                       /\ exc' = out.exc
                       /\ results' = out.results
                       /\ pc' = "returned"
                       /\ log' = Append(log, <<StageExtract, out.results.kind = "frame">>)
       ELSE IF option = "Custom Elements"
       THEN IF Falsy(custom_tag)
            THEN /\ Fail("custom_tag", "Custom tag is required for Custom Elements option", "")
                 /\ log' = Append(log, <<StageExtract, FALSE>>)
            ELSE LET out == CustomElements(soup, custom_tag[1])
                 IN  /\ ui' = ui \o out.ui
                     /\ exc' = out.exc
                     /\ results' = out.results
                     /\ pc' = "returned"
                     /\ log' = Append(log, <<StageExtract, out.results.kind = "frame">>)
       ELSE \* "... (rest of the scraping options)": the function falls off its end
            /\ results' = ReturnNone
            /\ pc' = "returned"
            /\ log' = Append(log, <<StageExtract, FALSE>>)
            /\ UNCHANGED <<exc, ui>>
    /\ UNCHANGED <<caller, url, option, custom_tag, description, response, soup>>

\* lines 196-215: the handler shows the results
HandleResults ==
    /\ pc = "returned"
    /\ caller = "handler"
    /\ ui' = Append(ui, IF results.kind = "frame" /\ results.rows # <<>>
                        THEN Msg("success", "Scraping completed successfully!", "")
                        ELSE Msg("warning", "No data found for the given criteria", ""))
    /\ pc' = "done"
    /\ UNCHANGED <<caller, url, option, custom_tag, description, log, response, soup,
                   results, exc>>

\* the script is run afresh for the next request
Rerun ==
    /\ \/ pc = "done"
       \/ pc = "returned" /\ caller = "direct"
    /\ pc' = "idle"
    /\ caller' = "none"
    /\ url' = <<>>
    /\ option' = "Text Content"
    /\ custom_tag' = None
    /\ description' = None
    /\ log' = <<>>
    /\ response' = NoResponse
    /\ soup' = <<>>
    /\ results' = Unset
    /\ exc' = None
    /\ ui' = <<>>

Next ==
    \/ ClickStart
    \/ CallScrape
    \/ CheckScheme
    \/ FetchRaises
    \/ FetchResponds
    \/ Parse
    \/ Extract
    \/ HandleResults
    \/ Rerun

Spec == Init /\ [][Next]_vars

----------------------------------------------------------------------------
(* Vocabulary of the properties *)

\* scrape_website has returned
Finished == pc \in {"returned", "done"}

\* scrape_website has returned from its dispatch on option
Extracted == Finished /\ Len(log) = 3

\* the stages of log, without their outcomes
StagesOf(l) == [i \in 1..Len(l) |-> l[i][1]]

GetIssued == \E i \in 1..Len(log) : log[i][1] = StageGet

ErrorShown == \E i \in 1..Len(ui) : ui[i].level = "error"

NoDataShown ==
    \E i \in 1..Len(ui) :
        ui[i].level = "warning" /\ ui[i].text = "No data found for the given criteria"

\* the elements of the parsed page, in document order
Nodes == Descendants(soup)

\* the j-th smallest member of a set of positions
Nth(S, j) == CHOOSE i \in S : Cardinality({k \in S : k < i}) = j - 1

\* the positions of the rows of one Type
RowsOfType(t) == {j \in 1..Len(results.rows) : results.rows[j].Type = t}

\* the positions of the nodes find_all hands to the Price rule
PriceNodes ==
    {i \in 1..Len(Nodes) :
        /\ Nodes[i].tag \in {span, div, para}
        /\ TagString(Nodes[i]) # None
        /\ HasCurrency(TagString(Nodes[i])[1])}

\* the positions of the anchors whose href contains mailto:
MailNodes ==
    {i \in 1..Len(Nodes) :
        /\ Nodes[i].tag = anchor
        /\ Nodes[i].href # None
        /\ Contains(Nodes[i].href[1], mailto)}

\* a Smart Extract call that returned a table
SmartDone == Extracted /\ option = "Smart Extract" /\ results.kind = "frame"

SaysPrice == Contains(Lower(description[1]), price)

SaysEmail == Contains(Lower(description[1]), email)

----------------------------------------------------------------------------
(* C1: in Links mode the result has one row per anchor with an href, in    *)
(* Images mode one row per image with a src, and in Text mode a page with  *)
(* text yields a non-empty result.                                         *)
C1_RowsPerMode ==
    Extracted =>
        /\ option = "Links" =>
              /\ results.kind = "frame"
              /\ Len(results.rows)
                   = Cardinality({i \in 1..Len(Nodes) :
                                     Nodes[i].tag = anchor /\ Nodes[i].href # None})
        /\ option = "Images" =>
              /\ results.kind = "frame"
              /\ Len(results.rows)
                   = Cardinality({i \in 1..Len(Nodes) :
                                     Nodes[i].tag = img /\ Nodes[i].src # None})
        /\ (option = "Text Content" /\ \E i \in 1..Len(Nodes) : TagText(Nodes[i]) # <<>>) =>
              /\ results.kind = "frame"
              /\ results.rows # <<>>

(* C2: in Smart Extract the Price rule fires exactly when the lower-cased  *)
(* description contains "price" or one of $, EUR sign, pound sign; when it *)
(* fires every span/div/p whose text contains a currency symbol gives one  *)
(* row of Type Price.                                                      *)
C2_PriceRule ==
    SmartDone =>
        LET fires == SaysPrice \/ HasCurrency(Lower(description[1]))
            priced == {i \in 1..Len(Nodes) :
                          /\ Nodes[i].tag \in {span, div, para}
                          /\ HasCurrency(TagText(Nodes[i]))}
        IN  Cardinality(RowsOfType("Price")) = IF fires THEN Cardinality(priced) ELSE 0

(* C3: the handler shows the "no data" advisory only for a valid empty     *)
(* result, so an error message and the advisory are never both shown.      *)
C3_AdvisoryOnlyForEmptyResult ==
    NoDataShown => results = DataFrame(<<>>) /\ ~ErrorShown

(* C4: with the mode's required parameter missing (no description in Smart *)
(* Extract, no selector in Custom Elements) no HTTP GET is issued.         *)
C4_NoGetOnMissingParameter ==
    (/\ caller # "none"
     /\ \/ option = "Smart Extract" /\ Falsy(description)
        \/ option = "Custom Elements" /\ Falsy(custom_tag))
    => ~GetIssued

(* C5: for a URL that does not begin with http:// or https:// the          *)
(* validator returns false, no HTTP GET is issued and the request ends     *)
(* with a rejection (an error or a warning) shown to the user.             *)
C5_NonHttpUrlRejected ==
    (caller # "none" /\ ~(StartsWith(url, http) \/ StartsWith(url, https))) =>
        /\ ~is_valid_url(url)
        /\ ~GetIssued
        /\ Finished => ui # <<>> /\ ui[1].level \in {"error", "warning"}

(* C6 as stated: 404 fails with "page not found", 403 with "forbidden",    *)
(* every other status outside 200..299 with the status text; the parser is *)
(* not invoked and no rows are returned.                                   *)
C6_EveryNon2xxFails ==
    (response.status # 0 /\ ~(200 <= response.status /\ response.status <= 299)) =>
        /\ Finished
        /\ results = ReturnNone
        /\ StagesOf(log) = <<StageGet>>

(* C6 as amended: 404 fails with "page not found", 403 with "forbidden",   *)
(* every other status in 400..599 with the status text; the parser is not  *)
(* invoked and no rows are returned.                                       *)
C6_ErrorStatusFails ==
    (400 <= response.status /\ response.status <= 599) =>
        /\ Finished
        /\ results = ReturnNone
        /\ StagesOf(log) = <<StageGet>>
        /\ ui # <<>>
        /\ LET m == ui[1]
           IN  /\ m.level = "error"
               /\ response.status = 404 =>
                     m.text = "Page not found. Please check if the URL is correct."
               /\ response.status = 403 =>
                     m.text = "Access forbidden. The website might be blocking web scrapers."
               /\ response.status \notin {403, 404} =>
                     m.text = "HTTP error occurred: " /\ m.cause.code = response.status

C6_Witness ==
    /\ pc = "done"
    /\ response.status = 404
    /\ ui[1].text = "Page not found. Please check if the URL is correct."

(* C7: an exception raised by the selector in Custom Elements or by the    *)
(* scan of a Smart Extract rule is wrapped in an error that carries the    *)
(* original message, and the call returns None: no rows, none either from  *)
(* a rule that had succeeded before.                                       *)
C7_ScanExceptionAborts ==
    (exc # None /\ exc[1].where \in {"select", "price", "email"}) =>
        /\ Finished
        /\ results = ReturnNone
        /\ \E i \in 1..Len(ui) :
              /\ ui[i].level = "error"
              /\ ui[i].cause = exc[1].msg
              /\ ui[i].text = IF exc[1].where = "select"
                              THEN "Invalid CSS selector: "
                              ELSE "Error during smart extraction: "
              /\ \A j \in 1..Len(ui) : ui[j].level = "error" => j = i

\* the Email scan raised after the Price rule had collected rows
C7_Witness ==
    /\ exc # None
    /\ exc[1].where = "email"
    /\ SaysPrice
    /\ PriceNodes # {}
    /\ results = ReturnNone

(* C8: when both rules fire the result is all Price rows followed by all   *)
(* Email rows, each group in document order of its nodes, one row per      *)
(* matched node, every row with exactly the columns Type and Content.      *)
C8_PriceRowsThenEmailRows ==
    (SmartDone /\ SaysPrice /\ SaysEmail) =>
        LET rows == results.rows
            np == Cardinality(PriceNodes)
            ne == Cardinality(MailNodes)
        IN  /\ Len(rows) = np + ne
            /\ \A j \in 1..Len(rows) : DOMAIN rows[j] = {"Type", "Content"}
            /\ \A j \in 1..np :
                  /\ rows[j].Type = "Price"
                  /\ rows[j].Content = Strip(TagText(Nodes[Nth(PriceNodes, j)]))
            /\ \A j \in 1..ne :
                  /\ rows[np + j].Type = "Email"
                  /\ rows[np + j].Content
                       = Replace(Nodes[Nth(MailNodes, j)].href[1], mailto)

\* both rules matched, and a mailto anchor stands before a priced node
C8_Witness ==
    /\ SmartDone /\ SaysPrice /\ SaysEmail
    /\ \E i \in MailNodes : \E k \in PriceNodes : i < k
    /\ Cardinality(PriceNodes) = 2
    /\ results.rows[1].Type = "Price"
    /\ results.rows[3].Type = "Email"

(* C9: with "email" in the description every anchor whose href contains    *)
(* mailto: gives one Email row whose Content is the href without its       *)
(* leading mailto:, the rest of the href unchanged.                        *)
C9_MailtoPrefixStripped ==
    (SmartDone /\ SaysEmail) =>
        LET mails == RowsOfType("Email")
        IN  /\ Cardinality(mails) = Cardinality(MailNodes)
            /\ \A j \in 1..Cardinality(MailNodes) :
                  mailto \o results.rows[Nth(mails, j)].Content
                      = Nodes[Nth(MailNodes, j)].href[1]

(* C10: the stages run in the order fetch, parse, extract, each at most    *)
(* once; the parser runs only after a GET that returned a non-error        *)
(* status, extraction only after the parse succeeded, and a failed stage   *)
(* ends the request.                                                       *)
C10_StagesInOrder ==
    /\ Len(log) <= 3
    /\ StagesOf(log) = SubSeq(<<StageGet, StageParse, StageExtract>>, 1, Len(log))
    /\ \A i \in 1..(Len(log) - 1) : log[i][2]
    /\ Len(log) >= 2 => response.status # 0 /\ ~(400 <= response.status /\ response.status <= 599)
    /\ Len(log) >= 3 => soup = response.html /\ response.parses
    /\ (log # <<>> /\ ~log[Len(log)][2]) => Finished
    /\ pc = "parse" => StagesOf(log) = <<StageGet>>
    /\ pc = "extract" => StagesOf(log) = <<StageGet, StageParse>>
    /\ pc \in {"idle", "call", "fetch"} => log = <<>>

\* a request that ran all three stages and returned rows
C10_Witness ==
    /\ pc = "done"
    /\ Len(log) = 3
    /\ log[3][2]
    /\ results.rows # <<>>

====
